---- MODULE Spec2Model ----
(***************************************************************************)
(* Endpoint network-policy query of the Antrea controller:                 *)
(* EndpointQueryReplier.QueryNetworkPolicies                               *)
(* (pkg/controller/networkpolicy/controller_querier_replier.go, the        *)
(* index-based revision at lines 80-184).                                  *)
(*                                                                         *)
(* The state is the pod lister and the three stores the query reads, plus  *)
(* the arguments and the return values of the last query.  The stores are  *)
(* filled by the controller's reconciliation, which is not part of the     *)
(* query: Init draws their contents from bounded sets.                     *)
(***************************************************************************)
EXTENDS Naturals, Sequences, FiniteSets, TLC

VARIABLES
    podInformer,                 \* the pods the lister knows: set of [Namespace, Name]
    appliedToGroupStore,         \* AppliedToGroup UID -> set of member pods
    addressGroupStore,           \* AddressGroup UID -> set of member pods
    internalNetworkPolicyStore,  \* policy UID -> NetworkPolicy record
    pc,                          \* "idle" before the first query, then "returned" or "panicked"
    namespace,                   \* arguments of the last query
    podName,
    response,                    \* returned *EndpointQueryResponse
    err,                         \* returned error
    calls,                       \* lister and store calls the last query issued, in order
    fault,                       \* which GetByIndex call of the last query failed (0: none)
    listerErr,                   \* the error the lister returned to the last query
    malformed,                   \* UIDs of the store records that are not of their store's type
    callers,                     \* caller -> position and locals of its call in progress
    accumulators,                \* accumulator -> the applied, egress and ingress of a call
    snapshots,                   \* caller -> the store contents that existed during its call
    updates,                     \* number of updates the reconciliation has made
    request,                     \* parameters of the last request to the endpoint handler
    status,                      \* HTTP status the handler answered with (0: none yet)
    body,                        \* what the handler wrote after the status
    transformInput,              \* the EndpointQueryResponse handed to objectTransform
    transformed                  \* what objectTransform made of it

vars == <<podInformer, appliedToGroupStore, addressGroupStore,
          internalNetworkPolicyStore, pc, namespace, podName, response, err, calls,
          fault, listerErr, malformed, callers, accumulators, snapshots, updates,
          request, status, body, transformInput, transformed>>

\* the arguments, the return values and the trace of the last query
queryVars == <<pc, namespace, podName, response, err, calls, fault, listerErr>>

\* the calls in progress
callVars == <<callers, accumulators, snapshots>>

\* the endpoint handler
handlerVars == <<request, status, body>>

\* the transform of the command line client
transformVars == <<transformInput, transformed>>

stores == <<podInformer, appliedToGroupStore, addressGroupStore,
            internalNetworkPolicyStore>>

-----------------------------------------------------------------------------
(* Bounds of the explored store contents. *)

\* most rules in one policy
MaxRules == 2
\* most AddressGroup references in one policy (the To and From of all its rules)
MaxRefs == 3

-----------------------------------------------------------------------------
(* The universe of records. *)

PodA == [Namespace |-> "a", Name |-> "b"]
PodB == [Namespace |-> "b", Name |-> "a"]
Pods == {PodA, PodB}

AppliedToGroupUIDs == {"atg1", "atg2"}
AddressGroupUIDs == {"ag1", "ag2"}
PolicyUIDs == {"p1", "p2"}

\* networkingv1beta1.Direction
DirectionIn == "In"
DirectionOut == "Out"

\* error values
NoError == "nil"
NotFound == "NotFound"
StoreFailure == "StoreFailure"
\* an error of the lister that is not a NotFound
InternalError == "InternalError"

\* a nil *EndpointQueryResponse, and one with the given Endpoints
NilResponse == [ptr |-> "nil", Endpoints |-> <<>>]
Response(endpoints) == [ptr |-> "set", Endpoints |-> endpoints]

-----------------------------------------------------------------------------
(* Sequences. *)

RECURSIVE Concat(_)
\* the concatenation of a sequence of sequences
Concat(ss) == IF ss = <<>> THEN <<>> ELSE Head(ss) \o Concat(Tail(ss))

Range(s) == {s[i] : i \in 1..Len(s)}

\* the sequences that list every element of S once
Orderings(S) ==
    {s \in [1..Cardinality(S) -> S] : \A i, j \in 1..Cardinality(S) : s[i] = s[j] => i = j}

\* the sequences over S of length at most n
RECURSIVE SeqsUpTo(_, _)
SeqsUpTo(S, n) ==
    IF n = 0 THEN {<<>>}
    ELSE LET shorter == SeqsUpTo(S, n - 1)
         IN  shorter \cup {Append(s, x) : s \in {t \in shorter : Len(t) = n - 1}, x \in S}

-----------------------------------------------------------------------------
(* The records of the stores (pkg/controller/types), and the store indices *)
(* (pkg/controller/networkpolicy/store).                                   *)

\* antreatypes.NetworkPolicy
NetworkPolicy(uid, name, ns, atgs, rules) ==
    [UID |-> uid, Name |-> name, Namespace |-> ns, AppliedToGroups |-> atgs, Rules |-> rules]

\* antreatypes.Rule: its declared direction and the AddressGroups of its peers
Rule(direction, from, to) == [Direction |-> direction, From |-> from, To |-> to]

\* Name and Namespace of the policies of the universe
PolicyName(uid) == IF uid = "p1" THEN "np-y" ELSE "np-x"
PolicyNamespace(uid) == IF uid = "p1" THEN "a" ELSE "b"

\* store.PodIndex: the keys under which a group with these members is indexed
PodIndexFunc(members) == {m.Name \o "/" \o m.Namespace : m \in members}

\* store.AppliedToGroupIndex: the keys under which a policy is indexed
AppliedToGroupIndexFunc(policy) == policy.AppliedToGroups

\* store.AddressGroupIndex: the keys under which a policy is indexed
AddressGroupIndexFunc(policy) ==
    UNION {Range(policy.Rules[i].From) \cup Range(policy.Rules[i].To) : i \in 1..Len(policy.Rules)}

\* GetByIndex(store.PodIndex, key) on a group store: the UIDs of the groups found
GetByPodIndex(groupStore, key) ==
    {g \in DOMAIN groupStore : key \in PodIndexFunc(groupStore[g])}

\* internalNetworkPolicyStore.GetByIndex(store.AppliedToGroupIndex, uid)
GetByAppliedToGroupIndex(uid) ==
    {p \in DOMAIN internalNetworkPolicyStore :
        uid \in AppliedToGroupIndexFunc(internalNetworkPolicyStore[p])}

\* internalNetworkPolicyStore.GetByIndex(store.AddressGroupIndex, uid)
GetByAddressGroupIndex(uid) ==
    {p \in DOMAIN internalNetworkPolicyStore :
        uid \in AddressGroupIndexFunc(internalNetworkPolicyStore[p])}

\* The order in which the stores hand out records is not specified.  An
\* iteration order gives, for each GetByIndex call of a query, the order of
\* the records it returns.  Only the orders of calls that return two records
\* or more differ in their effect: the others are fixed.
FirstOrder(S) == CHOOSE s \in Orderings(S) : TRUE

GroupOrders(uids, found) ==
    {o \in Orderings(uids) : Cardinality(found) <= 1 => o = FirstOrder(uids)}

PolicyOrders(uids, found, lookup) ==
    {f \in [uids -> Orderings(PolicyUIDs)] :
        \A g \in uids :
            (g \notin found \/ Cardinality(lookup[g]) <= 1) => f[g] = FirstOrder(PolicyUIDs)}

IterationOrders(key) ==
    LET atgs == GetByPodIndex(appliedToGroupStore, key)
        ags  == GetByPodIndex(addressGroupStore, key)
    IN  [atg   : GroupOrders(AppliedToGroupUIDs, atgs),
         ag    : GroupOrders(AddressGroupUIDs, ags),
         byAtg : PolicyOrders(AppliedToGroupUIDs, atgs,
                              [g \in AppliedToGroupUIDs |-> GetByAppliedToGroupIndex(g)]),
         byAg  : PolicyOrders(AddressGroupUIDs, ags,
                              [g \in AddressGroupUIDs |-> GetByAddressGroupIndex(g)])]

\* the records of S in the order `order` lists them
InOrder(order, S) == SelectSeq(order, LAMBDA x : x \in S)

-----------------------------------------------------------------------------
(* QueryNetworkPolicies, step by step. *)

\* podInformer.Lister().Pods(namespace).Get(podName): the error it returns
ListerGet(ns, name) ==
    IF [Namespace |-> ns, Name |-> name] \in podInformer THEN NoError ELSE NotFound

\* the errors the lister may return: its answer, or a failure of its own
ListerResults(ns, name) == {ListerGet(ns, name), InternalError}

\* (mutant of PodKey) the key with namespace and name exchanged
SwappedPodKey(ns, name) == ns \o "/" \o name

\* the key of both pod-index lookups
PodKey(ns, name) == name \o "/" \o ns

\* what the query returns when the lister reports an error
AbsentReturn(lerr) == [response |-> Response(<<>>), err |-> NoError]

\* (mutant of AppliedToGroupsFound) every AppliedToGroup of the store
AllAppliedToGroups(ns, name, ord) == InOrder(ord.atg, DOMAIN appliedToGroupStore)

\* the AppliedToGroups of the pod, as the store returns them
AppliedToGroupsFound(ns, name, ord) ==
    InOrder(ord.atg, GetByPodIndex(appliedToGroupStore, PodKey(ns, name)))

\* (mutant of AddressGroupsFound) the second lookup builds its key the other way round
AddressGroupsFoundByOtherKey(ns, name, ord) ==
    InOrder(ord.ag, GetByPodIndex(addressGroupStore, SwappedPodKey(ns, name)))

\* the AddressGroups of the pod, as the store returns them
AddressGroupsFound(ns, name, ord) ==
    InOrder(ord.ag, GetByPodIndex(addressGroupStore, PodKey(ns, name)))

\* the policies of one AppliedToGroup, as the store returns them
PoliciesOfAppliedToGroup(g, ord) ==
    LET uids == InOrder(ord.byAtg[g], GetByAppliedToGroupIndex(g))
    IN  [k \in 1..Len(uids) |-> internalNetworkPolicyStore[uids[k]]]

\* the policies of one AddressGroup, as the store returns them
PoliciesOfAddressGroup(g, ord) ==
    LET uids == InOrder(ord.byAg[g], GetByAddressGroupIndex(g))
    IN  [k \in 1..Len(uids) |-> internalNetworkPolicyStore[uids[k]]]

\* the loop over appliedToGroups: applied grows by every policy of every group
Applied(groups, ord) ==
    Concat([k \in 1..Len(groups) |-> PoliciesOfAppliedToGroup(groups[k], ord)])

\* (mutant of PeerMatches) one ruleTemp per element, whatever group it names
PeerMatchesAll(policy, i, peers, g) ==
    [k \in 1..Len(peers) |-> [policy |-> policy, index |-> i]]

\* the inner loop over one peer list: one ruleTemp per element equal to the group
PeerMatches(policy, i, peers, g) ==
    LET hits == SelectSeq(peers, LAMBDA trial : trial = g)
    IN  [k \in 1..Len(hits) |-> [policy |-> policy, index |-> i]]

\* the ruleTemps the rules of one policy add to egress for one AddressGroup
EgressOfPolicy(policy, g) ==
    Concat([i \in 1..Len(policy.Rules) |-> PeerMatches(policy, i - 1, policy.Rules[i].To, g)])

\* the ruleTemps the rules of one policy add to ingress for one AddressGroup
IngressOfPolicy(policy, g) ==
    Concat([i \in 1..Len(policy.Rules) |-> PeerMatches(policy, i - 1, policy.Rules[i].From, g)])

\* the loop over addressGroups: egress after it
Egress(groups, ord) ==
    Concat([k \in 1..Len(groups) |->
        LET policies == PoliciesOfAddressGroup(groups[k], ord)
        IN  Concat([j \in 1..Len(policies) |-> EgressOfPolicy(policies[j], groups[k])])])

\* the loop over addressGroups: ingress after it
Ingress(groups, ord) ==
    Concat([k \in 1..Len(groups) |->
        LET policies == PoliciesOfAddressGroup(groups[k], ord)
        IN  Concat([j \in 1..Len(policies) |-> IngressOfPolicy(policies[j], groups[k])])])

\* PolicyRef of an internal policy
PolicyRef(policy) ==
    [Namespace |-> policy.Namespace, Name |-> policy.Name, UID |-> policy.UID]

\* responsePolicies
ResponsePolicies(applied) == [k \in 1..Len(applied) |-> PolicyRef(applied[k])]

\* (mutant of ResponseRule) the direction the rule declares, not the list matched
ResponseRuleDeclared(ruleTemp, direction) ==
    [Namespace |-> ruleTemp.policy.Namespace, Name |-> ruleTemp.policy.Name,
     UID |-> ruleTemp.policy.UID,
     Direction |-> ruleTemp.policy.Rules[ruleTemp.index + 1].Direction,
     RuleIndex |-> ruleTemp.index]

\* (mutant of ResponseRule) the PolicyRef of the first policy of the store
ResponseRuleOfFirst(ruleTemp, direction) ==
    LET first == internalNetworkPolicyStore[FirstOrder(PolicyUIDs)[1]]
    IN  [Namespace |-> first.Namespace, Name |-> first.Name, UID |-> first.UID,
         Direction |-> direction, RuleIndex |-> ruleTemp.index]

\* a response Rule
ResponseRule(ruleTemp, direction) ==
    [Namespace |-> ruleTemp.policy.Namespace, Name |-> ruleTemp.policy.Name,
     UID |-> ruleTemp.policy.UID, Direction |-> direction, RuleIndex |-> ruleTemp.index]

\* (mutant of ResponseRules) the ingress rules, then the egress rules
ResponseRulesIngressFirst(egress, ingress) ==
    [k \in 1..Len(ingress) |-> ResponseRule(ingress[k], DirectionIn)]
        \o [k \in 1..Len(egress) |-> ResponseRule(egress[k], DirectionOut)]

\* (mutant of ResponseRules) the Direction of the ingress rules is left unset
ResponseRulesUnset(egress, ingress) ==
    [k \in 1..Len(egress) |-> ResponseRule(egress[k], DirectionOut)]
        \o [k \in 1..Len(ingress) |-> ResponseRule(ingress[k], "")]

\* responseRules: the egress rules, then the ingress rules
ResponseRules(egress, ingress) ==
    [k \in 1..Len(egress) |-> ResponseRule(egress[k], DirectionOut)]
        \o [k \in 1..Len(ingress) |-> ResponseRule(ingress[k], DirectionIn)]

\* the Endpoint of the response
Endpoint(ns, name, policies, rules) ==
    [Namespace |-> ns, Name |-> name, Policies |-> policies, Rules |-> rules]

\* the call to the pod lister
ListerCall(ns, name) == [target |-> "podInformer", index |-> "", key |-> ns \o "/" \o name]

\* a GetByIndex call
IndexCall(target, index, key) == [target |-> target, index |-> index, key |-> key]

\* the GetByIndex calls of a query that runs to its end, in the order of the code
StoreCalls(ns, name, ord) ==
    LET atgs == AppliedToGroupsFound(ns, name, ord)
        ags  == AddressGroupsFound(ns, name, ord)
    IN  <<IndexCall("appliedToGroupStore", "PodIndex", PodKey(ns, name))>>
        \o [k \in 1..Len(atgs) |->
              IndexCall("internalNetworkPolicyStore", "AppliedToGroupIndex", atgs[k])]
        \o <<IndexCall("addressGroupStore", "PodIndex", PodKey(ns, name))>>
        \o [k \in 1..Len(ags) |->
              IndexCall("internalNetworkPolicyStore", "AddressGroupIndex", ags[k])]

\* what a query returns when every call succeeds
FullReturn(ns, name, ord) ==
    LET applied == Applied(AppliedToGroupsFound(ns, name, ord), ord)
        egress  == Egress(AddressGroupsFound(ns, name, ord), ord)
        ingress == Ingress(AddressGroupsFound(ns, name, ord), ord)
    IN  [response |-> Response(<<Endpoint(ns, name, ResponsePolicies(applied),
                                          ResponseRules(egress, ingress))>>),
         err |-> NoError]

\* (mutant of FailedReturn) the error is dropped, as the lister's is
SwallowedReturn == [response |-> Response(<<>>), err |-> NoError]

\* what a query returns when a GetByIndex call fails
FailedReturn == [response |-> NilResponse, err |-> StoreFailure]

\* The unchecked type assertions x.(*T) of a query that runs to its end: for
\* each one on a record that is not a *T, the number of GetByIndex calls that
\* have returned when it is evaluated.
AssertionPoints(ns, name, ord) ==
    LET atgs == AppliedToGroupsFound(ns, name, ord)
        ags  == AddressGroupsFound(ns, name, ord)
        n    == Len(atgs)
    IN  {k : k \in {j \in 1..n : atgs[j] \in malformed}}
        \cup {k + 1 : k \in {j \in 1..n : GetByAppliedToGroupIndex(atgs[j]) \cap malformed # {}}}
        \cup {n + 1 + k : k \in {j \in 1..Len(ags) : ags[j] \in malformed}}
        \cup {n + 2 + k :
                 k \in {j \in 1..Len(ags) : GetByAddressGroupIndex(ags[j]) \cap malformed # {}}}

\* the least element of a non-empty set of numbers
Min(S) == CHOOSE x \in S : \A y \in S : x <= y

\* the query panics: an assertion fails before the failAt-th call is issued
Panics(ns, name, ord, failAt) ==
    \E c \in AssertionPoints(ns, name, ord) : failAt = 0 \/ failAt > c

\* (mutant of Query) the AppliedToGroup lookup is issued before the lister is asked
QueryLookupFirst(ns, name, lerr, ord, failAt) ==
    LET sc   == StoreCalls(ns, name, ord)
    IN  IF lerr # NoError
        THEN [ret |-> AbsentReturn(lerr),
              calls |-> <<Head(sc), ListerCall(ns, name)>>, fault |-> 0, panic |-> FALSE]
        ELSE IF failAt \in 1..Len(sc)
        THEN [ret |-> FailedReturn,
              calls |-> <<ListerCall(ns, name)>> \o SubSeq(sc, 1, failAt), fault |-> failAt,
              panic |-> FALSE]
        ELSE [ret |-> FullReturn(ns, name, ord),
              calls |-> <<ListerCall(ns, name)>> \o sc, fault |-> 0, panic |-> FALSE]

\* The return values and the calls of QueryNetworkPolicies(ns, name), when the
\* lister returns lerr, the stores hand out their records in the order ord and
\* the failAt-th GetByIndex call fails (0: none does).  A query that panics
\* returns nothing.
Query(ns, name, lerr, ord, failAt) ==
    LET sc   == StoreCalls(ns, name, ord)
    IN  IF lerr # NoError
        THEN [ret |-> AbsentReturn(lerr), calls |-> <<ListerCall(ns, name)>>, fault |-> 0,
              panic |-> FALSE]
        ELSE IF Panics(ns, name, ord, failAt)
        THEN [ret |-> [response |-> NilResponse, err |-> NoError],
              calls |-> <<ListerCall(ns, name)>>
                            \o SubSeq(sc, 1, Min(AssertionPoints(ns, name, ord))),
              fault |-> 0, panic |-> TRUE]
        ELSE IF failAt \in 1..Len(sc)
        THEN [ret |-> FailedReturn,
              calls |-> <<ListerCall(ns, name)>> \o SubSeq(sc, 1, failAt), fault |-> failAt,
              panic |-> FALSE]
        ELSE [ret |-> FullReturn(ns, name, ord),
              calls |-> <<ListerCall(ns, name)>> \o sc, fault |-> 0, panic |-> FALSE]

-----------------------------------------------------------------------------
(* The store contents explored. *)

\* the declared direction of a rule with these peers: rules with To peers are
\* egress rules
DeclaredDirection(from, to) == IF to = <<>> THEN DirectionIn ELSE DirectionOut

\* number of AddressGroup references in a rule sequence
RECURSIVE Refs(_)
Refs(rules) ==
    IF rules = <<>> THEN 0
    ELSE Len(Head(rules).From) + Len(Head(rules).To) + Refs(Tail(rules))

PeerLists == SeqsUpTo(AddressGroupUIDs, MaxRefs)

\* the rules with at most r references
RuleSet(r) ==
    {x \in {Rule(DeclaredDirection(from, to), from, to) : from \in PeerLists, to \in PeerLists} :
        Len(x.From) + Len(x.To) <= r}

\* the sequences of exactly n rules with at most r references in all
RECURSIVE RuleSeqsOfLen(_, _)
RuleSeqsOfLen(n, r) ==
    IF n = 0 THEN {<<>>}
    ELSE UNION {{<<rule>> \o rest : rest \in RuleSeqsOfLen(n - 1, r - Refs(<<rule>>))} :
                   rule \in RuleSet(r)}

\* the rule sequences within the bounds
RuleSeqs == UNION {RuleSeqsOfLen(n, MaxRefs) : n \in 0..MaxRules}

\* the rule sequences of the second policy: no rule, or one ingress rule from an
\* AddressGroup the first policy may name too
FewRuleSeqs == {<<>>, <<Rule(DirectionIn, <<"ag1">>, <<>>)>>}

\* stores in which the pods, the AppliedToGroups and the policies' references
\* to them vary
AppliedSideStores ==
    [pods : {{PodA}, Pods},
     atg  : [AppliedToGroupUIDs -> SUBSET Pods],
     ag   : {[g \in AddressGroupUIDs |-> {}]},
     np   : {[p \in PolicyUIDs |-> NetworkPolicy(p, PolicyName(p), PolicyNamespace(p), refs[p], <<>>)] :
                refs \in [PolicyUIDs -> SUBSET AppliedToGroupUIDs]}]

\* stores in which the rules' references to the AddressGroups vary: one pod is
\* in both AddressGroups, or the other pod is in one of them
RuleSideStores ==
    [pods : {Pods},
     atg  : {[g \in AppliedToGroupUIDs |-> IF g = "atg1" THEN {PodA} ELSE {}]},
     ag   : {[g \in AddressGroupUIDs |-> IF g = "ag1" THEN m[1] ELSE m[2]] :
                m \in {<<{PodA}, {PodA}>>, <<{PodB}, {}>>}},
     np   : {[p \in PolicyUIDs |->
                NetworkPolicy(p, PolicyName(p), PolicyNamespace(p),
                              IF p = "p1" THEN {"atg1"} ELSE {},
                              IF p = "p1" THEN r1 ELSE r2)] :
                r1 \in RuleSeqs, r2 \in FewRuleSeqs}]

\* stores that hold records of the wrong type: the pod in one group of each
\* kind, one policy applied to it, at most one reference to an AddressGroup
MalformedStores ==
    [pods : {Pods},
     atg  : {[g \in AppliedToGroupUIDs |-> IF g = "atg1" THEN {PodA} ELSE {}]},
     ag   : {[g \in AddressGroupUIDs |-> IF g = "ag1" THEN {PodA} ELSE {}]},
     np   : {[p \in PolicyUIDs |->
                NetworkPolicy(p, PolicyName(p), PolicyNamespace(p),
                              IF p = "p1" THEN {"atg1"} ELSE {},
                              IF p = "p1" THEN r1 ELSE r2)] :
                r1 \in RuleSeqsOfLen(1, 1), r2 \in FewRuleSeqs}]

\* the records that may be of the wrong type
MalformedSets == (SUBSET {"atg1", "ag1", "p1", "p2"}) \ {{}}

\* the lister and the stores hold s, the records m are of the wrong type
InitStores(s, m) ==
    /\ podInformer = s.pods
    /\ appliedToGroupStore = s.atg
    /\ addressGroupStore = s.ag
    /\ internalNetworkPolicyStore = s.np
    /\ malformed = m

\* the goroutines that call QueryNetworkPolicies
CallerIds == {"c1", "c2"}

\* a caller that has not called
IdleCaller ==
    [pc |-> "idle", namespace |-> "", podName |-> "", groups |-> <<>>, k |-> 0,
     lerr |-> NoError, failed |-> FALSE, response |-> NilResponse, err |-> NoError]

\* applied, ingress, egress := make(...), make(...), make(...)
EmptyAccumulator == [applied |-> <<>>, egress |-> <<>>, ingress |-> <<>>]

\* no call is in progress
InitCallers ==
    /\ callers = [c \in CallerIds |-> IdleCaller]
    /\ accumulators = [c \in CallerIds |-> EmptyAccumulator]
    /\ snapshots = [c \in CallerIds |-> {}]
    /\ updates = 0

\* no request has been made
NoRequest == [namespace |-> "", pod |-> ""]

\* the JSON object without a member
EmptyObject == [k \in {} |-> ""]

\* nothing has been written to the response
NoBody == [kind |-> "none", json |-> EmptyObject]

InitHandler ==
    /\ request = NoRequest
    /\ status = 0
    /\ body = NoBody

\* objectTransform has not been called
NotTransformed == [done |-> FALSE, panic |-> FALSE, responses |-> <<>>]

InitTransform ==
    /\ transformInput = NilResponse
    /\ transformed = NotTransformed

\* no query has been issued
InitQuery ==
    /\ pc = "idle"
    /\ namespace = ""
    /\ podName = ""
    /\ response = NilResponse
    /\ err = NoError
    /\ calls = <<>>
    /\ fault = 0
    /\ listerErr = NoError

Init ==
    /\ \/ \E s \in AppliedSideStores \cup RuleSideStores : InitStores(s, {})
       \/ \E s \in MalformedStores, m \in MalformedSets : InitStores(s, m)
    /\ InitQuery
    /\ InitCallers
    /\ InitHandler
    /\ InitTransform

\* QueryNetworkPolicies(ns, name), from its call to its return
QueryNetworkPolicies(ns, name) ==
    /\ pc = "idle"
    /\ \E lerr \in ListerResults(ns, name), ord \in IterationOrders(PodKey(ns, name)) :
      \E failAt \in 0..Len(StoreCalls(ns, name, ord)) :
        LET q == Query(ns, name, lerr, ord, failAt)
        IN  /\ pc' = IF q.panic THEN "panicked" ELSE "returned"
            /\ namespace' = ns
            /\ podName' = name
            /\ response' = q.ret.response
            /\ err' = q.ret.err
            /\ calls' = q.calls
            /\ fault' = q.fault
            /\ listerErr' = lerr
            /\ UNCHANGED <<stores, malformed>>

Next ==
    \E p \in Pods :
        /\ QueryNetworkPolicies(p.Namespace, p.Name)
        /\ UNCHANGED <<callVars, updates, handlerVars, transformVars>>

Spec == Init /\ [][Next]_vars

-----------------------------------------------------------------------------
(* QueryNetworkPolicies called by several goroutines.  A call is a sequence *)
(* of steps, one for the lister call and one for each GetByIndex call with  *)
(* the code that follows it; the steps of different calls interleave.       *)

\* the store contents the calls run against: the pod a/b is in a group of each
\* kind, and two policies may be applied through one group
FewStores ==
    [pods : {Pods},
     atg  : {[g \in AppliedToGroupUIDs |-> IF g = "atg1" THEN {PodA} ELSE m] :
                m \in {{PodA}, {PodB}}},
     ag   : {[g \in AddressGroupUIDs |-> IF g = "ag1" THEN {PodA} ELSE {PodB}]},
     np   : {[p \in PolicyUIDs |->
                NetworkPolicy(p, PolicyName(p), PolicyNamespace(p),
                              IF p = "p1" THEN {"atg1"} ELSE refs,
                              IF p = "p1" THEN <<Rule(DirectionOut, <<>>, <<"ag1">>)>>
                                          ELSE r2)] :
                refs \in {{"atg1"}, {"atg2"}}, r2 \in FewRuleSeqs}]

InitCalls ==
    /\ \E s \in FewStores : InitStores(s, {})
    /\ InitQuery
    /\ InitCallers
    /\ InitHandler
    /\ InitTransform

\* the contents of the three stores
StoreState ==
    [atg |-> appliedToGroupStore, ag |-> addressGroupStore, np |-> internalNetworkPolicyStore]

\* (mutant of AccumulatorOf) one applied, egress and ingress for all calls
SharedAccumulator(self) == "c1"

\* applied, ingress and egress are locals of the call
AccumulatorOf(self) == self

\* the position after element k of a range loop over groups
AfterLoop(groups, k, inLoop, after) == IF k <= Len(groups) THEN inLoop ELSE after

\* (mutant of ReturnedCaller) the call blocks where it should return
BlockedCaller(c, ret) == [c EXCEPT !.pc = "blocked"]

\* the caller after its call returned ret
ReturnedCaller(c, ret) ==
    [c EXCEPT !.pc = "returned", !.groups = <<>>, !.k = 0,
              !.response = ret.response, !.err = ret.err]

\* if err != nil { return nil, err }
OnFailure(c) == ReturnedCaller([c EXCEPT !.failed = TRUE], FailedReturn)

\* the call of self ends: its locals are gone
Finish(self, c) ==
    /\ callers' = [callers EXCEPT ![self] = c]
    /\ accumulators' = [accumulators EXCEPT ![AccumulatorOf(self)] = EmptyAccumulator]

\* a type assertion of the call of self fails
Panic(self) == Finish(self, [callers[self] EXCEPT !.pc = "panicked"])

\* the call and its lister lookup
Call(self, ns, name) ==
    /\ callers[self].pc \in {"idle", "returned"}
    /\ \E lerr \in ListerResults(ns, name) :
        LET c == [IdleCaller EXCEPT !.namespace = ns, !.podName = name, !.lerr = lerr]
        IN  IF lerr # NoError
            THEN Finish(self, ReturnedCaller(c, AbsentReturn(lerr)))
            ELSE Finish(self, [c EXCEPT !.pc = "appliedToGroups"])
    /\ snapshots' = [snapshots EXCEPT ![self] = {StoreState}]
    /\ UNCHANGED <<stores, malformed, queryVars, updates, handlerVars, transformVars>>

\* appliedToGroupStore.GetByIndex(store.PodIndex, podName + "/" + namespace)
GetAppliedToGroups(self) ==
    LET c == callers[self]
    IN  /\ c.pc = "appliedToGroups"
        /\ \E fails \in BOOLEAN :
            IF fails
            THEN Finish(self, OnFailure(c))
            ELSE \E order \in Orderings(GetByPodIndex(appliedToGroupStore,
                                                      PodKey(c.namespace, c.podName))) :
                    /\ callers' = [callers EXCEPT ![self] =
                          [c EXCEPT !.groups = order, !.k = 1,
                                    !.pc = AfterLoop(order, 1, "appliedPolicies",
                                                     "addressGroups")]]
                    /\ UNCHANGED accumulators
        /\ UNCHANGED <<stores, malformed, queryVars, snapshots, updates, handlerVars, transformVars>>

\* one pass of the loop over appliedToGroups
GetAppliedPolicies(self) ==
    LET c == callers[self]
        g == c.groups[c.k]
    IN  /\ c.pc = "appliedPolicies"
        /\ IF g \in malformed
           THEN Panic(self)
           ELSE \E fails \in BOOLEAN :
                IF fails
                THEN Finish(self, OnFailure(c))
                ELSE \E order \in Orderings(GetByAppliedToGroupIndex(g)) :
                    IF Range(order) \cap malformed # {}
                    THEN Panic(self)
                    ELSE /\ callers' = [callers EXCEPT ![self] =
                                [c EXCEPT !.k = c.k + 1,
                                          !.pc = AfterLoop(c.groups, c.k + 1,
                                                           "appliedPolicies", "addressGroups")]]
                         /\ accumulators' = [accumulators EXCEPT
                                ![AccumulatorOf(self)].applied =
                                    @ \o [j \in 1..Len(order) |->
                                            internalNetworkPolicyStore[order[j]]]]
        /\ UNCHANGED <<stores, malformed, queryVars, snapshots, updates, handlerVars, transformVars>>

\* addressGroupStore.GetByIndex(store.PodIndex, podName + "/" + namespace)
GetAddressGroups(self) ==
    LET c == callers[self]
    IN  /\ c.pc = "addressGroups"
        /\ \E fails \in BOOLEAN :
            IF fails
            THEN Finish(self, OnFailure(c))
            ELSE \E order \in Orderings(GetByPodIndex(addressGroupStore,
                                                      PodKey(c.namespace, c.podName))) :
                    /\ callers' = [callers EXCEPT ![self] =
                          [c EXCEPT !.groups = order, !.k = 1,
                                    !.pc = AfterLoop(order, 1, "peerPolicies", "respond")]]
                    /\ UNCHANGED accumulators
        /\ UNCHANGED <<stores, malformed, queryVars, snapshots, updates, handlerVars, transformVars>>

\* one pass of the loop over addressGroups
GetPeerPolicies(self) ==
    LET c == callers[self]
        g == c.groups[c.k]
    IN  /\ c.pc = "peerPolicies"
        /\ IF g \in malformed
           THEN Panic(self)
           ELSE \E fails \in BOOLEAN :
                IF fails
                THEN Finish(self, OnFailure(c))
                ELSE \E order \in Orderings(GetByAddressGroupIndex(g)) :
                    IF Range(order) \cap malformed # {}
                    THEN Panic(self)
                    ELSE LET policies == [j \in 1..Len(order) |->
                                            internalNetworkPolicyStore[order[j]]]
                         IN  /\ callers' = [callers EXCEPT ![self] =
                                    [c EXCEPT !.k = c.k + 1,
                                              !.pc = AfterLoop(c.groups, c.k + 1,
                                                               "peerPolicies", "respond")]]
                             /\ accumulators' = [accumulators EXCEPT
                                    ![AccumulatorOf(self)].egress =
                                        @ \o Concat([j \in 1..Len(policies) |->
                                                EgressOfPolicy(policies[j], g)]),
                                    ![AccumulatorOf(self)].ingress =
                                        @ \o Concat([j \in 1..Len(policies) |->
                                                IngressOfPolicy(policies[j], g)])]
        /\ UNCHANGED <<stores, malformed, queryVars, snapshots, updates, handlerVars, transformVars>>

\* the response is built from applied, egress and ingress, and returned
RespondReturn(self) ==
    LET c   == callers[self]
        acc == accumulators[AccumulatorOf(self)]
    IN  /\ c.pc = "respond"
        /\ Finish(self, ReturnedCaller(c,
              [response |-> Response(<<Endpoint(c.namespace, c.podName,
                                                ResponsePolicies(acc.applied),
                                                ResponseRules(acc.egress, acc.ingress))>>),
               err |-> NoError]))
        /\ UNCHANGED <<podInformer, appliedToGroupStore, addressGroupStore, malformed,
                       queryVars, snapshots, updates, handlerVars, transformVars>>

\* (mutant of Respond) the rules of the policies are cleared once they are read
RespondConsuming(self) ==
    /\ RespondReturn(self)
    /\ internalNetworkPolicyStore' =
          [p \in DOMAIN internalNetworkPolicyStore |->
              [internalNetworkPolicyStore[p] EXCEPT !.Rules = <<>>]]

\* the last step of a call
Respond(self) ==
    /\ RespondReturn(self)
    /\ UNCHANGED internalNetworkPolicyStore

\* a step of the call in progress of self
Steps(self) ==
    \/ GetAppliedToGroups(self)
    \/ GetAppliedPolicies(self)
    \/ GetAddressGroups(self)
    \/ GetPeerPolicies(self)
    \/ Respond(self)

NextCalls ==
    \E self \in CallerIds :
        \/ \E p \in Pods : Call(self, p.Namespace, p.Name)
        \/ Steps(self)

\* each goroutine that is in a call is scheduled
Calls == InitCalls /\ [][NextCalls]_vars /\ \A self \in CallerIds : WF_vars(Steps(self))

-----------------------------------------------------------------------------
(* The reconciliation of the controller updates the stores while a call is *)
(* in progress.  Each update and each store call is atomic.                 *)

\* most updates of the reconciliation in one behaviour
MaxUpdates == 2

\* a call of c is in progress
InCall(c) == callers[c].pc \notin {"idle", "returned", "panicked"}

\* the store contents s come to exist: every call in progress has lived through them
Observe(s) ==
    /\ snapshots' = [c \in CallerIds |-> IF InCall(c) THEN snapshots[c] \cup {s}
                                                       ELSE snapshots[c]]
    /\ updates < MaxUpdates
    /\ updates' = updates + 1
    /\ UNCHANGED <<podInformer, malformed, queryVars, callers, accumulators, handlerVars, transformVars>>

\* the members of an AppliedToGroup are computed anew
SyncAppliedToGroup(g, members) ==
    /\ g \in DOMAIN appliedToGroupStore
    /\ appliedToGroupStore[g] # members
    /\ appliedToGroupStore' = [appliedToGroupStore EXCEPT ![g] = members]
    /\ Observe([StoreState EXCEPT !.atg = [appliedToGroupStore EXCEPT ![g] = members]])
    /\ UNCHANGED <<addressGroupStore, internalNetworkPolicyStore>>

\* the members of an AddressGroup are computed anew
SyncAddressGroup(g, members) ==
    /\ g \in DOMAIN addressGroupStore
    /\ addressGroupStore[g] # members
    /\ addressGroupStore' = [addressGroupStore EXCEPT ![g] = members]
    /\ Observe([StoreState EXCEPT !.ag = [addressGroupStore EXCEPT ![g] = members]])
    /\ UNCHANGED <<appliedToGroupStore, internalNetworkPolicyStore>>

\* the appliedToGroupStore without the group g
WithoutGroup(g) == [h \in DOMAIN appliedToGroupStore \ {g} |-> appliedToGroupStore[h]]

\* an AppliedToGroup no policy refers to is deleted
DeleteAppliedToGroup(g) ==
    /\ g \in DOMAIN appliedToGroupStore
    /\ GetByAppliedToGroupIndex(g) = {}
    /\ appliedToGroupStore' = WithoutGroup(g)
    /\ Observe([StoreState EXCEPT !.atg = WithoutGroup(g)])
    /\ UNCHANGED <<addressGroupStore, internalNetworkPolicyStore>>

\* the policy store with the AppliedToGroups of p replaced
WithAppliedToGroups(p, atgs) ==
    [internalNetworkPolicyStore EXCEPT ![p].AppliedToGroups = atgs]

\* a policy is processed anew: it is applied to other groups of the store
UpdateInternalNetworkPolicy(p, atgs) ==
    /\ atgs \subseteq DOMAIN appliedToGroupStore
    /\ internalNetworkPolicyStore[p].AppliedToGroups # atgs
    /\ internalNetworkPolicyStore' = WithAppliedToGroups(p, atgs)
    /\ Observe([StoreState EXCEPT !.np = WithAppliedToGroups(p, atgs)])
    /\ UNCHANGED <<appliedToGroupStore, addressGroupStore>>

\* an update of the reconciliation
Reconcile ==
    \/ \E g \in AppliedToGroupUIDs, members \in SUBSET Pods : SyncAppliedToGroup(g, members)
    \/ \E g \in AddressGroupUIDs, members \in SUBSET Pods : SyncAddressGroup(g, members)
    \/ \E g \in AppliedToGroupUIDs : DeleteAppliedToGroup(g)
    \/ \E p \in PolicyUIDs, atgs \in SUBSET AppliedToGroupUIDs :
          UpdateInternalNetworkPolicy(p, atgs)

\* one goroutine calls while the reconciliation runs
NextReconciled ==
    \/ \E p \in Pods : Call("c1", p.Namespace, p.Name)
    \/ Steps("c1")
    \/ Reconcile

Reconciled == InitCalls /\ [][NextReconciled]_vars

-----------------------------------------------------------------------------
(* The endpoint handler of the controller's API server,                     *)
(* pkg/controller/apiserver/handlers/endpoint.HandleFunc: it reads the      *)
(* namespace and pod parameters of the request, calls QueryNetworkPolicies  *)
(* and answers with a status.                                               *)

\* net/http status codes
StatusOK == 200
StatusBadRequest == 400
StatusNotFound == 404
StatusInternalServerError == 500

\* the values of a query parameter: "" when the request does not carry it
Params == {"", "a", "b"}

\* (mutant of Incomplete) only a request without any parameter is refused
NoParameter(req) == req.namespace = "" /\ req.pod = ""

\* the request lacks a parameter
Incomplete(req) == req.namespace = "" \/ req.pod = ""

\* the status for what the querier returned
ResponseStatus(e) ==
    IF e = NoError THEN StatusOK
    ELSE IF e = NotFound THEN StatusNotFound
    ELSE StatusInternalServerError

\* encoding/json of a PolicyRef, the fields tagged omitempty
\* (`json:"namespace,omitempty"`, `json:"name,omitempty"`, `json:"uid,omitempty"`)
MarshalPolicyRef(ref) ==
    LET fields == [namespace |-> ref.Namespace, name |-> ref.Name, uid |-> ref.UID]
    IN  [k \in {f \in DOMAIN fields : fields[f] # ""} |-> fields[k]]

\* a Policy: its embedded PolicyRef; the unexported selector is not encoded
MarshalPolicy(policy) == MarshalPolicyRef(policy)

\* a Rule: its embedded PolicyRef, `json:"direction,omitempty"` and
\* `json:"ruleindex,omitempty"`: a RuleIndex of 0 is left out
MarshalRule(rule) ==
    LET ref  == MarshalPolicyRef(rule)
        keys == DOMAIN ref
                  \cup (IF rule.Direction # "" THEN {"direction"} ELSE {})
                  \cup (IF rule.RuleIndex # 0 THEN {"ruleindex"} ELSE {})
    IN  [k \in keys |-> IF k = "direction" THEN rule.Direction
                         ELSE IF k = "ruleindex" THEN rule.RuleIndex
                         ELSE ref[k]]

\* (mutant of MarshalPolicies) the array lists the policies last to first
MarshalPoliciesReversed(policies) ==
    [k \in 1..Len(policies) |-> MarshalPolicy(policies[Len(policies) + 1 - k])]

\* a []Policy: an array in the order of the slice
MarshalPolicies(policies) == [k \in 1..Len(policies) |-> MarshalPolicy(policies[k])]

\* a []Rule
MarshalRules(rules) == [k \in 1..Len(rules) |-> MarshalRule(rules[k])]

\* an Endpoint: empty strings and empty slices are left out
MarshalEndpoint(endpoint) ==
    LET keys == (IF endpoint.Namespace # "" THEN {"namespace"} ELSE {})
                  \cup (IF endpoint.Name # "" THEN {"name"} ELSE {})
                  \cup (IF endpoint.Policies # <<>> THEN {"policies"} ELSE {})
                  \cup (IF endpoint.Rules # <<>> THEN {"rules"} ELSE {})
    IN  [k \in keys |-> IF k = "namespace" THEN endpoint.Namespace
                         ELSE IF k = "name" THEN endpoint.Name
                         ELSE IF k = "policies" THEN MarshalPolicies(endpoint.Policies)
                         ELSE MarshalRules(endpoint.Rules)]

\* an EndpointQueryResponse: `json:"endpoints,omitempty"`
Marshal(resp) ==
    IF resp.Endpoints = <<>> THEN EmptyObject
    ELSE [endpoints |-> [k \in 1..Len(resp.Endpoints) |-> MarshalEndpoint(resp.Endpoints[k])]]

\* the member k of a JSON object, or the zero value of the field it is decoded into
Member(object, k, zero) == IF k \in DOMAIN object THEN object[k] ELSE zero

UnmarshalPolicy(object) ==
    [Namespace |-> Member(object, "namespace", ""), Name |-> Member(object, "name", ""),
     UID |-> Member(object, "uid", "")]

UnmarshalRule(object) ==
    [Namespace |-> Member(object, "namespace", ""), Name |-> Member(object, "name", ""),
     UID |-> Member(object, "uid", ""), Direction |-> Member(object, "direction", ""),
     RuleIndex |-> Member(object, "ruleindex", 0)]

UnmarshalEndpoint(object) ==
    LET policies == Member(object, "policies", <<>>)
        rules    == Member(object, "rules", <<>>)
    IN  [Namespace |-> Member(object, "namespace", ""), Name |-> Member(object, "name", ""),
         Policies |-> [k \in 1..Len(policies) |-> UnmarshalPolicy(policies[k])],
         Rules |-> [k \in 1..Len(rules) |-> UnmarshalRule(rules[k])]]

\* json.Unmarshal(body, &received): the Endpoints of received
Unmarshal(object) ==
    LET endpoints == Member(object, "endpoints", <<>>)
    IN  [k \in 1..Len(endpoints) |-> UnmarshalEndpoint(endpoints[k])]

\* the body written for the status: the serialized response on success, the
\* text of an error otherwise
ResponseBody(code, resp) ==
    IF code = StatusOK THEN [kind |-> "json", json |-> Marshal(resp)]
    ELSE [kind |-> "text", json |-> EmptyObject]

\* the handler serves one request
HandleFunc(req) ==
    /\ status = 0
    /\ request' = req
    /\ IF Incomplete(req)
       THEN /\ status' = StatusBadRequest
            /\ body' = ResponseBody(StatusBadRequest, NilResponse)
            /\ UNCHANGED <<stores, malformed, queryVars>>
       ELSE /\ QueryNetworkPolicies(req.namespace, req.pod)
            /\ status' = ResponseStatus(err')
            /\ body' = ResponseBody(ResponseStatus(err'), response')
    /\ UNCHANGED <<callVars, updates, transformVars>>

NextHandled == \E ns \in Params, pod \in Params : HandleFunc([namespace |-> ns, pod |-> pod])

Handled == InitCalls /\ [][NextHandled]_vars

-----------------------------------------------------------------------------
(* The transform of the command line client, objectTransform of package     *)
(* endpoint: it turns the EndpointQueryResponse the client received into    *)
(* the Response objects the client prints.                                  *)

\* most rules of an endpoint handed to objectTransform
MaxShownRules == 3

\* the decimal digits
Digits == <<"0", "1", "2", "3", "4", "5", "6", "7", "8", "9">>

\* strconv.Itoa of a number that is not negative
RECURSIVE Itoa(_)
Itoa(n) == IF n < 10 THEN Digits[n + 1] ELSE Itoa(n \div 10) \o Digits[(n % 10) + 1]

\* policyStr
PolicyStr(policy) == <<policy.Name, policy.Namespace, policy.UID>>

\* ruleStr
RuleStr(rule) == <<rule.Name, rule.Namespace, Itoa(rule.RuleIndex), rule.UID>>

\* (mutant of RulesOfDirection) each ruleStr is put in front of the list
RulesOfDirectionPrepended(rules, direction) ==
    LET selected == SelectSeq(rules, LAMBDA rule : rule.Direction = direction)
    IN  [k \in 1..Len(selected) |-> RuleStr(selected[Len(selected) + 1 - k])]

\* the list the loop over endpoint.Rules appends the rules of one direction to
RulesOfDirection(rules, direction) ==
    LET selected == SelectSeq(rules, LAMBDA rule : rule.Direction = direction)
    IN  [k \in 1..Len(selected) |-> RuleStr(selected[k])]

\* a rule whose Direction is neither DirectionIn nor DirectionOut:
\* panic("Unimplemented direction")
Unimplemented(endpoints) ==
    \E e \in 1..Len(endpoints) : \E k \in 1..Len(endpoints[e].Rules) :
        endpoints[e].Rules[k].Direction \notin {DirectionIn, DirectionOut}

\* the Response of one endpoint
EndpointResponse(endpoint) ==
    [Namespace |-> endpoint.Namespace, Name |-> endpoint.Name,
     Policies |-> [k \in 1..Len(endpoint.Policies) |-> PolicyStr(endpoint.Policies[k])],
     EgressRules |-> RulesOfDirection(endpoint.Rules, DirectionOut),
     IngressRules |-> RulesOfDirection(endpoint.Rules, DirectionIn)]

\* objectTransform(o)
ObjectTransform(o) ==
    IF Unimplemented(o.Endpoints)
    THEN [done |-> TRUE, panic |-> TRUE, responses |-> <<>>]
    ELSE [done |-> TRUE, panic |-> FALSE,
          responses |-> [e \in 1..Len(o.Endpoints) |-> EndpointResponse(o.Endpoints[e])]]

\* the values of a Direction: the two that are implemented and the zero value
ShownDirections == {DirectionIn, DirectionOut, ""}

\* the rules of the endpoints handed to objectTransform: of the first policy,
\* at either of two positions
ShownRules ==
    {[Namespace |-> PolicyNamespace("p1"), Name |-> PolicyName("p1"), UID |-> "p1",
      Direction |-> d, RuleIndex |-> i] : d \in ShownDirections, i \in {0, 12}}

\* the policies of the endpoints handed to objectTransform: none, or both in
\* either order
ShownPolicies ==
    {[k \in 1..Len(o) |-> [Namespace |-> PolicyNamespace(o[k]), Name |-> PolicyName(o[k]),
                            UID |-> o[k]]] : o \in {<<>>} \cup Orderings(PolicyUIDs)}

\* the endpoints handed to objectTransform
ShownEndpoints ==
    {Endpoint(pod.Namespace, pod.Name, policies, rules) :
        pod \in Pods, policies \in ShownPolicies, rules \in SeqsUpTo(ShownRules, MaxShownRules)}

\* the endpoints of the responses with two endpoints: at most one rule each
PlainEndpoints == {e \in ShownEndpoints : Len(e.Rules) <= 1}

\* the responses handed to objectTransform: no endpoint, one, or two
TransformInputs ==
    {Response(<<>>)} \cup {Response(<<e>>) : e \in ShownEndpoints}
        \cup {Response(<<e1, e2>>) : e1 \in PlainEndpoints, e2 \in PlainEndpoints}

\* the client asks the controller: QueryNetworkPolicies(ns, name)
ClientQuery(ns, name) ==
    /\ ~transformed.done
    /\ QueryNetworkPolicies(ns, name)
    /\ UNCHANGED <<callVars, updates, handlerVars, transformVars>>

\* Transform(reader, single) on the body the controller sent: the response is
\* decoded and handed to objectTransform
TransformReceived ==
    /\ ~transformed.done
    /\ pc = "returned"
    /\ err = NoError
    /\ transformInput' = Response(Unmarshal(Marshal(response)))
    /\ transformed' = ObjectTransform(transformInput')
    /\ UNCHANGED <<stores, malformed, queryVars, callVars, updates, handlerVars>>

\* objectTransform(o) on a response o of any content
TransformObject ==
    /\ ~transformed.done
    /\ pc = "idle"
    /\ \E o \in TransformInputs :
          /\ transformInput' = o
          /\ transformed' = ObjectTransform(o)
    /\ UNCHANGED <<stores, malformed, queryVars, callVars, updates, handlerVars>>

NextTransformed ==
    \/ \E p \in Pods : ClientQuery(p.Namespace, p.Name)
    \/ TransformReceived
    \/ TransformObject

Transformed == InitCalls /\ [][NextTransformed]_vars

-----------------------------------------------------------------------------
(* A query is repeated after the stores changed in one respect: the contents *)
(* of the AddressGroups, the peers of the rules, the contents of the         *)
(* AppliedToGroups, or the AppliedToGroups of the policies.                  *)

\* the peers a rule may get: no AddressGroup, or one
VariedPeers == SeqsUpTo(AddressGroupUIDs, 1)

\* the rule sequences that differ from rules in the From and To of the rules only
VariedRules(rules) ==
    {[i \in 1..Len(rules) |-> Rule(DeclaredDirection(peers[i][1], peers[i][2]),
                                   peers[i][1], peers[i][2])] :
        peers \in [1..Len(rules) -> VariedPeers \X VariedPeers]}

\* the stores hold other contents from now on
Varied ==
    /\ callers["c1"].pc = "returned"
    /\ callers["c2"].pc = "idle"
    /\ updates = 0
    /\ updates' = 1
    /\ UNCHANGED <<podInformer, malformed, queryVars, callVars, handlerVars, transformVars>>

\* the AddressGroups get other members
VaryAddressGroups ==
    /\ Varied
    /\ \E ag \in [AddressGroupUIDs -> SUBSET Pods] : addressGroupStore' = ag
    /\ UNCHANGED <<appliedToGroupStore, internalNetworkPolicyStore>>

\* the rules of the policies get other peers
VaryPeers ==
    /\ Varied
    /\ \E rules \in [PolicyUIDs ->
                        UNION {VariedRules(internalNetworkPolicyStore[p].Rules) :
                                  p \in PolicyUIDs}] :
          /\ \A p \in PolicyUIDs :
                rules[p] \in VariedRules(internalNetworkPolicyStore[p].Rules)
          /\ internalNetworkPolicyStore' =
                [p \in PolicyUIDs |-> [internalNetworkPolicyStore[p] EXCEPT !.Rules = rules[p]]]
    /\ UNCHANGED <<appliedToGroupStore, addressGroupStore>>

\* the AppliedToGroups get other members
VaryAppliedToGroups ==
    /\ Varied
    /\ \E atg \in [AppliedToGroupUIDs -> SUBSET Pods] : appliedToGroupStore' = atg
    /\ UNCHANGED <<addressGroupStore, internalNetworkPolicyStore>>

\* the policies are applied to other AppliedToGroups
VaryReferences ==
    /\ Varied
    /\ \E refs \in [PolicyUIDs -> SUBSET AppliedToGroupUIDs] :
          internalNetworkPolicyStore' =
              [p \in PolicyUIDs |->
                  [internalNetworkPolicyStore[p] EXCEPT !.AppliedToGroups = refs[p]]]
    /\ UNCHANGED <<appliedToGroupStore, addressGroupStore>>

\* the first query
FirstCall(ns, name) ==
    /\ callers["c1"].pc = "idle"
    /\ Call("c1", ns, name)

\* the same query again, after the first has returned
SecondCall ==
    /\ callers["c1"].pc = "returned"
    /\ callers["c2"].pc = "idle"
    /\ Call("c2", callers["c1"].namespace, callers["c1"].podName)

NextVaried ==
    \/ \E p \in Pods : FirstCall(p.Namespace, p.Name)
    \/ Steps("c1")
    \/ VaryAddressGroups
    \/ VaryPeers
    \/ VaryAppliedToGroups
    \/ VaryReferences
    \/ SecondCall
    \/ Steps("c2")

Repeated == InitCalls /\ [][NextVaried]_vars

-----------------------------------------------------------------------------
(* What the claims speak of. *)

\* a query has returned
Returned == pc = "returned"

\* the workload the last query asked for
Queried == [Namespace |-> namespace, Name |-> podName]

\* the workload exists for the lister
QueriedExists == Queried \in podInformer

\* the query ran to its end: the lister found the workload and no GetByIndex
\* call failed
Completed == Returned /\ QueriedExists /\ listerErr = NoError /\ fault = 0

\* the groups whose membership contains the workload
AppliedToGroupsOf(pod) == {g \in AppliedToGroupUIDs : pod \in appliedToGroupStore[g]}
AddressGroupsOf(pod) == {g \in AddressGroupUIDs : pod \in addressGroupStore[g]}

\* the policies that declare an AppliedToGroup containing the workload
PoliciesAppliedTo(pod) ==
    {p \in PolicyUIDs :
        internalNetworkPolicyStore[p].AppliedToGroups \cap AppliedToGroupsOf(pod) # {}}

\* the Endpoints of the response
Endpoints == response.Endpoints

\* the Policies and the Rules of the one Endpoint of a completed query
Policies == Endpoints[1].Policies
Rules == Endpoints[1].Rules

-----------------------------------------------------------------------------
\* C1: a query for a workload the lister does not know returns a NotFound
\* error and a response whose Endpoints is nil, whatever the stores hold.
C1_AbsentIsNotFound ==
    (Returned /\ ~QueriedExists /\ listerErr = NotFound) =>
        /\ err = NotFound
        /\ response.ptr = "set"
        /\ Endpoints = <<>>

\* C2: the lister is asked first and once, and when it does not know the
\* workload no GetByIndex call is issued on any store.
C2_ExistenceCheckFirst ==
    Returned =>
        /\ calls # <<>>
        /\ calls[1] = ListerCall(namespace, podName)
        /\ \A k \in 2..Len(calls) : calls[k].target # "podInformer"
        /\ ~QueriedExists => Len(calls) = 1

\* C2 witness: a query for an unknown workload has returned, and the stores
\* hold a group with that workload and a policy applied to the group.
C2_Witness ==
    /\ Returned
    /\ ~QueriedExists
    /\ Len(calls) = 1
    /\ PoliciesAppliedTo(Queried) # {}

\* C3: for an existing workload that is in no AppliedToGroup and in no
\* AddressGroup, a query whose store calls succeed returns no error and one
\* Endpoint with empty Policies and empty Rules.
C3_UnselectedIsEmpty ==
    (Completed /\ AppliedToGroupsOf(Queried) = {} /\ AddressGroupsOf(Queried) = {}) =>
        /\ err = NoError
        /\ response.ptr = "set"
        /\ Len(Endpoints) = 1
        /\ Policies = <<>>
        /\ Rules = <<>>

\* C3 witness: such a query has returned, while the stores hold groups of
\* another workload with policies on them.
C3_Witness ==
    /\ Completed
    /\ AppliedToGroupsOf(Queried) = {}
    /\ AddressGroupsOf(Queried) = {}
    /\ Len(Endpoints) = 1
    /\ \E other \in Pods \ {Queried} :
        \/ PoliciesAppliedTo(other) # {}
        \/ \E g \in AddressGroupsOf(other) : GetByAddressGroupIndex(g) # {}

\* C4: for an existing workload, the UIDs in Policies are exactly the policies
\* that declare an AppliedToGroup whose membership contains the workload.
C4_PoliciesAreTheApplied ==
    Completed => {Policies[k].UID : k \in 1..Len(Policies)} = PoliciesAppliedTo(Queried)

\* C4 witness: one policy applies to the workload and is returned, another
\* applies only to the other workload.
C4_Witness ==
    /\ Completed
    /\ \E p, q \in PolicyUIDs :
        /\ p \in PoliciesAppliedTo(Queried)
        /\ \E k \in 1..Len(Policies) : Policies[k].UID = p
        /\ q \notin PoliciesAppliedTo(Queried)
        /\ \E other \in Pods \ {Queried} : q \in PoliciesAppliedTo(other)
\* C5: no two entries of Policies share a UID, also when a policy is reached
\* through two AppliedToGroups that both contain the workload.
C5_PoliciesDeduplicated ==
    Completed => \A j, k \in 1..Len(Policies) : Policies[j].UID = Policies[k].UID => j = k

\* the entries of Rules for rule idx of policy p in direction dir
RuleEntries(p, idx, dir) ==
    {k \in 1..Len(Rules) :
        Rules[k].UID = p /\ Rules[k].RuleIndex = idx /\ Rules[k].Direction = dir}

\* the rules of a stored policy
RulesOf(p) == internalNetworkPolicyStore[p].Rules

\* C6: for every AddressGroup g of the workload and every rule at position i
\* of a policy, g in the rule's To gives an entry (policy, i, Egress) and g in
\* the rule's From gives an entry (policy, i, Ingress).
C6_MatchedRulesEmitted ==
    Completed =>
        \A g \in AddressGroupsOf(Queried), p \in PolicyUIDs :
            \A i \in 1..Len(RulesOf(p)) :
                /\ g \in Range(RulesOf(p)[i].To) => RuleEntries(p, i - 1, DirectionOut) # {}
                /\ g \in Range(RulesOf(p)[i].From) => RuleEntries(p, i - 1, DirectionIn) # {}

\* C6 witness: the second rule of a policy names a group of the workload in
\* its From and its To, and both entries with RuleIndex 1 are returned.
C6_Witness ==
    /\ Completed
    /\ \E g \in AddressGroupsOf(Queried), p \in PolicyUIDs :
        /\ Len(RulesOf(p)) >= 2
        /\ g \in Range(RulesOf(p)[2].To)
        /\ g \in Range(RulesOf(p)[2].From)
        /\ RuleEntries(p, 1, DirectionOut) # {}
        /\ RuleEntries(p, 1, DirectionIn) # {}

\* C7: every entry (policy, i, direction) of Rules has an AddressGroup of the
\* workload in the To (Egress) or the From (Ingress) of rule i of that policy.
C7_RulesJustified ==
    Completed =>
        \A k \in 1..Len(Rules) :
            /\ Rules[k].UID \in PolicyUIDs
            /\ Rules[k].RuleIndex + 1 \in 1..Len(RulesOf(Rules[k].UID))
            /\ Rules[k].Direction \in {DirectionIn, DirectionOut}
            /\ LET rule == RulesOf(Rules[k].UID)[Rules[k].RuleIndex + 1]
                   peers == IF Rules[k].Direction = DirectionOut THEN rule.To ELSE rule.From
               IN  Range(peers) \cap AddressGroupsOf(Queried) # {}

\* C7 witness: one rule of a policy names a group of the workload and has its
\* entry, another rule of the same policy names only groups the workload is
\* not in.
C7_Witness ==
    /\ Completed
    /\ Rules # <<>>
    /\ \E p \in PolicyUIDs : \E i, j \in 1..Len(RulesOf(p)) :
        /\ (Range(RulesOf(p)[i].To) \cup Range(RulesOf(p)[i].From))
              \cap AddressGroupsOf(Queried) # {}
        /\ Range(RulesOf(p)[j].To) \cup Range(RulesOf(p)[j].From) # {}
        /\ (Range(RulesOf(p)[j].To) \cup Range(RulesOf(p)[j].From))
              \cap AddressGroupsOf(Queried) = {}
        /\ \E k \in 1..Len(Rules) : Rules[k].UID = p /\ Rules[k].RuleIndex = i - 1

\* C8: no two entries of Rules have the same (policy UID, RuleIndex, Direction).
C8_RulesDeduplicated ==
    Completed =>
        \A j, k \in 1..Len(Rules) :
            (/\ Rules[j].UID = Rules[k].UID
             /\ Rules[j].RuleIndex = Rules[k].RuleIndex
             /\ Rules[j].Direction = Rules[k].Direction) => j = k

\* C9: when a rule names one AddressGroup of the workload in its To and in its
\* From, the query returns, with exactly one Egress and exactly one Ingress
\* entry for that rule.
C9_OneEntryPerDirection ==
    Completed =>
        \A g \in AddressGroupsOf(Queried), p \in PolicyUIDs :
            \A i \in 1..Len(RulesOf(p)) :
                (g \in Range(RulesOf(p)[i].To) /\ g \in Range(RulesOf(p)[i].From)) =>
                    /\ Cardinality(RuleEntries(p, i - 1, DirectionOut)) = 1
                    /\ Cardinality(RuleEntries(p, i - 1, DirectionIn)) = 1

\* C10: a query that returns no error returns exactly one Endpoint, with the
\* namespace and the name asked for; a query that returns an error returns no
\* Endpoints.
C10_OneEndpointOrNone ==
    Returned =>
        /\ err = NoError =>
            /\ response.ptr = "set"
            /\ Len(Endpoints) = 1
            /\ Endpoints[1].Namespace = namespace
            /\ Endpoints[1].Name = podName
        /\ err # NoError => Endpoints = <<>>

-----------------------------------------------------------------------------
\* the strings of the universe in ascending byte order, as Go compares strings
StringOrder == <<"In", "Out", "a", "b", "np-x", "np-y", "p1", "p2">>

\* the position of a string in that order
StringRank(str) == CHOOSE k \in 1..Len(StringOrder) : StringOrder[k] = str

\* lexicographic order of two sequences of numbers of one length
RECURSIVE LexLeq(_, _)
LexLeq(x, y) ==
    IF x = <<>> THEN TRUE
    ELSE IF Head(x) # Head(y) THEN Head(x) < Head(y)
    ELSE LexLeq(Tail(x), Tail(y))

\* the sort key of a Policies entry: (Namespace, Name, UID)
PolicySortKey(policy) ==
    <<StringRank(policy.Namespace), StringRank(policy.Name), StringRank(policy.UID)>>

\* the sort key of a Rules entry: (Namespace, Name, RuleIndex, Direction)
RuleSortKey(rule) ==
    <<StringRank(rule.Namespace), StringRank(rule.Name), rule.RuleIndex,
      StringRank(rule.Direction)>>

\* C11: in every successful response Policies is sorted ascending by
\* (Namespace, Name, UID) and Rules by (Namespace, Name, RuleIndex, Direction),
\* whatever the order in which the stores returned the groups and the policies.
C11_Sorted ==
    Completed =>
        /\ \A k \in 1..(Len(Policies) - 1) :
              LexLeq(PolicySortKey(Policies[k]), PolicySortKey(Policies[k + 1]))
        /\ \A k \in 1..(Len(Rules) - 1) :
              LexLeq(RuleSortKey(Rules[k]), RuleSortKey(Rules[k + 1]))

\* the call of c has returned
HasReturned(c) == callers[c].pc = "returned"

\* the call of c has returned, and neither the lister nor a store failed it
RanToEnd(c) ==
    /\ HasReturned(c)
    /\ callers[c].lerr # InternalError
    /\ ~callers[c].failed

\* C12: two calls with the same namespace and pod name against the same
\* unchanged stores return identical responses, also when the stores return
\* their records in another order to each call.
C12_Deterministic ==
    \A c1, c2 \in CallerIds :
        (/\ RanToEnd(c1)
         /\ RanToEnd(c2)
         /\ callers[c1].namespace = callers[c2].namespace
         /\ callers[c1].podName = callers[c2].podName) =>
            /\ callers[c1].response = callers[c2].response
            /\ callers[c1].err = callers[c2].err

\* the query was stopped by the failure of a GetByIndex call
Failed == Returned /\ fault # 0

\* C13: when a GetByIndex call of the query fails, on either group store or on
\* the policy store by either index, the query returns the error and a nil
\* response: no Endpoint, and none of the policies found before the failure.
C13_FailureReturnsNoEndpoint ==
    Failed =>
        /\ err = StoreFailure
        /\ response.ptr = "nil"
        /\ Endpoints = <<>>

\* C13 witness: the policy lookup for an AddressGroup of the workload fails
\* after the lookups of the applied policies found a policy.
C13_Witness ==
    /\ Failed
    /\ calls[Len(calls)].index = "AddressGroupIndex"
    /\ PoliciesAppliedTo(Queried) # {}
    /\ err = StoreFailure
    /\ Endpoints = <<>>

\* the records the calls of the last query handed to it
Handed ==
    UNION {IF calls[k].target = "appliedToGroupStore"
                THEN GetByPodIndex(appliedToGroupStore, calls[k].key)
           ELSE IF calls[k].target = "addressGroupStore"
                THEN GetByPodIndex(addressGroupStore, calls[k].key)
           ELSE IF calls[k].index = "AppliedToGroupIndex"
                THEN GetByAppliedToGroupIndex(calls[k].key)
           ELSE IF calls[k].index = "AddressGroupIndex"
                THEN GetByAddressGroupIndex(calls[k].key)
           ELSE {} : k \in {j \in 1..Len(calls) : j # fault + 1}}

\* C14: a query never panics, and a query that was handed a record that is not
\* of the type of its store returns an error.
C14_MalformedIsAnError ==
    /\ pc # "panicked"
    /\ (Returned /\ Handed \cap malformed # {}) => err # NoError

\* C15: the response of the absent workload (Endpoints = nil, no GetByIndex
\* call) is returned only when the lister's error is a NotFound; any other
\* error of the lister is returned as an error that is not a NotFound.
C15_OnlyNotFoundIsAbsent ==
    Returned =>
        /\ (response.ptr = "set" /\ Endpoints = <<>>) => listerErr = NotFound
        /\ listerErr \notin {NoError, NotFound} => err \notin {NoError, NotFound}

\* C16: no step of any call, successful or failed, changes a record or an
\* index entry of the policy store, the AppliedToGroup store or the
\* AddressGroup store.
C16_StoresUnchanged ==
    [][UNCHANGED <<internalNetworkPolicyStore, appliedToGroupStore, addressGroupStore>>]_vars

\* C16 witness: one call has returned policies and rules read from the three
\* stores, another has returned the error of a failed store call.
C16_Witness ==
    \E c1, c2 \in CallerIds :
        /\ RanToEnd(c1)
        /\ Len(callers[c1].response.Endpoints) = 1
        /\ callers[c1].response.Endpoints[1].Policies # <<>>
        /\ callers[c1].response.Endpoints[1].Rules # <<>>
        /\ HasReturned(c2)
        /\ callers[c2].failed
        /\ callers[c2].err = StoreFailure

\* what the call of c returned
ReturnOf(c) == [response |-> callers[c].response, err |-> callers[c].err]

\* the returns of QueryNetworkPolicies(ns, name) run alone against the stores,
\* the lister returning lerr, with a failing store call (failed) or without
ReturnsAlone(ns, name, lerr, failed) ==
    UNION {{Query(ns, name, lerr, ord, failAt).ret :
                failAt \in IF failed THEN 1..Len(StoreCalls(ns, name, ord)) ELSE {0}} :
              ord \in IterationOrders(PodKey(ns, name))}

\* the policies applied to the pod in the store contents s
AppliedIn(s, pod) ==
    {p \in DOMAIN s.np :
        \E g \in s.np[p].AppliedToGroups \cap DOMAIN s.atg : pod \in s.atg[g]}

\* the pod is in a group of peers in the store contents s
PeerIn(s, pod, peers) == \E g \in Range(peers) \cap DOMAIN s.ag : pod \in s.ag[g]

\* the (policy, RuleIndex, Direction) of the rules that name a group of the
\* pod in the store contents s
RuleEntriesIn(s, pod) ==
    UNION {{<<p, i - 1, DirectionOut>> :
                i \in {j \in 1..Len(s.np[p].Rules) : PeerIn(s, pod, s.np[p].Rules[j].To)}}
           \cup {<<p, i - 1, DirectionIn>> :
                i \in {j \in 1..Len(s.np[p].Rules) : PeerIn(s, pod, s.np[p].Rules[j].From)}} :
              p \in DOMAIN s.np}

\* the response of the call of c is the answer on the store contents s
AnswerOn(c, s) ==
    LET pod == [Namespace |-> callers[c].namespace, Name |-> callers[c].podName]
        ep  == callers[c].response.Endpoints[1]
    IN  /\ {ep.Policies[k].UID : k \in 1..Len(ep.Policies)} = AppliedIn(s, pod)
        /\ {<<ep.Rules[k].UID, ep.Rules[k].RuleIndex, ep.Rules[k].Direction>> :
                k \in 1..Len(ep.Rules)} = RuleEntriesIn(s, pod)

\* C17: with the reconciliation updating the stores between the store calls
\* of a call, the policies and rules the call returns are those of one single
\* store contents that existed at some instant during the call.
C17_SnapshotConsistent ==
    \A c \in CallerIds :
        (RanToEnd(c) /\ callers[c].lerr = NoError) =>
            \E s \in snapshots[c] : AnswerOn(c, s)

\* C18: interleaved with the calls of other goroutines against unchanged
\* stores, every call returns what it returns when it runs alone.
C18_CallsDoNotInterfere ==
    \A c \in CallerIds :
        HasReturned(c) =>
            ReturnOf(c) \in ReturnsAlone(callers[c].namespace, callers[c].podName,
                                         callers[c].lerr, callers[c].failed)

\* C18 witness: one call has returned the policies of its pod while the call
\* of another goroutine for another pod has filled its applied and is about
\* to build its response.
C18_Witness ==
    \E c1, c2 \in CallerIds :
        /\ RanToEnd(c1)
        /\ Len(callers[c1].response.Endpoints) = 1
        /\ callers[c1].response.Endpoints[1].Policies # <<>>
        /\ callers[c2].pc = "respond"
        /\ callers[c2].podName # callers[c1].podName
        /\ accumulators[c2].applied # <<>>

C20_IncompleteIsBadRequest ==
    (status # 0 /\ (request.namespace = "" \/ request.pod = "")) =>
        /\ status = StatusBadRequest
        /\ pc = "idle"
        /\ calls = <<>>

\* C20 witness: a request with a namespace and no pod has been answered with
\* 400 while the stores hold policies.
C20_Witness ==
    /\ status = StatusBadRequest
    /\ request.namespace # ""
    /\ request.pod = ""
    /\ calls = <<>>
    /\ PoliciesAppliedTo(PodA) # {}

-----------------------------------------------------------------------------
\* the handler has answered a request that carries both parameters
Answered == status # 0 /\ request.namespace # "" /\ request.pod # ""

C22_BodyRoundTrips ==
    (Answered /\ status = StatusOK) =>
        /\ body.kind = "json"
        /\ Len(Unmarshal(body.json)) = Len(Endpoints)
        /\ \A e \in 1..Len(Endpoints) :
            LET received == Unmarshal(body.json)[e]
            IN  /\ Len(received.Policies) = Len(Endpoints[e].Policies)
                /\ \A k \in 1..Len(Endpoints[e].Policies) :
                      received.Policies[k] = Endpoints[e].Policies[k]
                /\ received.Rules = Endpoints[e].Rules
                /\ received.Namespace = Endpoints[e].Namespace
                /\ received.Name = Endpoints[e].Name

\* C22 witness: a response with two policies of different names and a rule of
\* RuleIndex 0, which the encoding leaves out, has been written and decodes to
\* the same policies.
C22_Witness ==
    /\ Answered
    /\ status = StatusOK
    /\ Len(Endpoints) = 1
    /\ Len(Policies) = 2
    /\ Policies[1].Name # Policies[2].Name
    /\ \E k \in 1..Len(Rules) : Rules[k].RuleIndex = 0
    /\ "ruleindex" \notin DOMAIN body.json.endpoints[1].rules[1]
    /\ Unmarshal(body.json)[1].Policies = Policies

-----------------------------------------------------------------------------
\* the entry carries the Namespace, the Name and the UID of one stored policy
RefersToStored(entry) ==
    /\ entry.UID \in DOMAIN internalNetworkPolicyStore
    /\ entry.Namespace = internalNetworkPolicyStore[entry.UID].Namespace
    /\ entry.Name = internalNetworkPolicyStore[entry.UID].Name

\* rule idx (0-based) of policy p names a group of the workload in its To
\* (Egress) or its From (Ingress)
OwnsMatchedRule(p, idx, dir) ==
    /\ idx + 1 \in 1..Len(RulesOf(p))
    /\ LET rule == RulesOf(p)[idx + 1]
       IN  Range(IF dir = DirectionOut THEN rule.To ELSE rule.From)
              \cap AddressGroupsOf(Queried) # {}

\* C23: every Policies entry carries the Namespace, Name and UID of a policy
\* applied to the workload, and every Rules entry those of the policy that
\* owns the matched rule, never those of another policy of the same group.
C23_EntriesNameTheirPolicy ==
    Completed =>
        /\ \A k \in 1..Len(Policies) :
              /\ RefersToStored(Policies[k])
              /\ Policies[k].UID \in PoliciesAppliedTo(Queried)
        /\ \A k \in 1..Len(Rules) :
              /\ RefersToStored(Rules[k])
              /\ OwnsMatchedRule(Rules[k].UID, Rules[k].RuleIndex, Rules[k].Direction)

\* C23 witness: two policies are reached through one AddressGroup of the
\* workload; one has an Ingress rule on it and no Egress rule, the other an
\* Egress rule, and each entry names its own policy.
C23_Witness ==
    /\ Completed
    /\ \E g \in AddressGroupsOf(Queried) : GetByAddressGroupIndex(g) = PolicyUIDs
    /\ \E j, k \in 1..Len(Rules) :
        /\ Rules[j].UID # Rules[k].UID
        /\ Rules[j].Direction = DirectionOut
        /\ Rules[k].Direction = DirectionIn
        /\ ~OwnsMatchedRule(Rules[k].UID, Rules[j].RuleIndex, DirectionOut)
        /\ RefersToStored(Rules[j])
        /\ RefersToStored(Rules[k])
    /\ Policies # <<>>

-----------------------------------------------------------------------------
\* the distinct workload whose namespace and name are the name and namespace asked for
Mirror == [Namespace |-> podName, Name |-> namespace]

\* C24: both pod-index lookups use the key podName + "/" + namespace, and a
\* query for (a, b) returns no policy and no rule matched only by the
\* workload (namespace = b, podName = a).
C24_KeyedByNameThenNamespace ==
    (Returned /\ listerErr = NoError) =>
        /\ \A k \in 1..Len(calls) :
              calls[k].index = "PodIndex" => calls[k].key = podName \o "/" \o namespace
        /\ Completed =>
            /\ \A k \in 1..Len(Policies) :
                  Policies[k].UID \in PoliciesAppliedTo(Mirror) =>
                      Policies[k].UID \in PoliciesAppliedTo(Queried)
            /\ \A k \in 1..Len(Rules) :
                  OwnsMatchedRule(Rules[k].UID, Rules[k].RuleIndex, Rules[k].Direction)

\* C24 witness: the query for (a, b) has issued both lookups with the key
\* "b/a" and returned a policy and no rule, while the workload (b, a) is in an
\* AddressGroup that rules name and (a, b) is in none.
C24_Witness ==
    /\ Completed
    /\ Queried = PodA
    /\ Mirror = PodB
    /\ Cardinality({k \in 1..Len(calls) : calls[k].index = "PodIndex" /\ calls[k].key = "b/a"}) = 2
    /\ AddressGroupsOf(Queried) = {}
    /\ \E g \in AddressGroupsOf(Mirror) : GetByAddressGroupIndex(g) # {}
    /\ Policies # <<>>
    /\ Rules = <<>>

-----------------------------------------------------------------------------
\* the RuleIndex of the entries the code appends for policy p, in direction
\* dir, while it processes the AddressGroup g (lines 122-133), in that order
BlockOf(p, g, dir) ==
    LET temps == IF dir = DirectionOut
                 THEN EgressOfPolicy(internalNetworkPolicyStore[p], g)
                 ELSE IngressOfPolicy(internalNetworkPolicyStore[p], g)
    IN  [k \in 1..Len(temps) |-> temps[k].index]

\* the entries of Rules from position start on are those of the block
AppearsAt(p, dir, block, start) ==
    /\ start + Len(block) - 1 <= Len(Rules)
    /\ \A k \in 1..Len(block) :
          /\ Rules[start + k - 1].UID = p
          /\ Rules[start + k - 1].Direction = dir
          /\ Rules[start + k - 1].RuleIndex = block[k]

\* C25: every RuleIndex is the 0-based position of the matched rule in its
\* policy, within 0 .. length - 1, and the entries of one policy, direction
\* and AddressGroup appear in Rules in increasing RuleIndex order.
C25_RuleIndexIsPosition ==
    Completed =>
        /\ \A k \in 1..Len(Rules) :
              /\ Rules[k].RuleIndex \in 0..(Len(RulesOf(Rules[k].UID)) - 1)
              /\ OwnsMatchedRule(Rules[k].UID, Rules[k].RuleIndex, Rules[k].Direction)
        /\ \A g \in AddressGroupsOf(Queried), dir \in {DirectionIn, DirectionOut} :
              \A p \in GetByAddressGroupIndex(g) :
                  /\ \E start \in 1..(Len(Rules) + 1) : AppearsAt(p, dir, BlockOf(p, g, dir), start)
                  /\ \A j \in 1..(Len(BlockOf(p, g, dir)) - 1) :
                        BlockOf(p, g, dir)[j] < BlockOf(p, g, dir)[j + 1]

-----------------------------------------------------------------------------
\* the positions of the rules of one direction, ascending
PositionsOf(rules, direction) ==
    SelectSeq([k \in 1..Len(rules) |-> k], LAMBDA k : rules[k].Direction = direction)

\* list shows the rules of that direction, one entry each, in the order of rules
Shows(list, rules, direction) ==
    LET at == PositionsOf(rules, direction)
    IN  /\ Len(list) = Len(at)
        /\ \A j \in 1..Len(at) :
              list[j] = <<rules[at[j]].Name, rules[at[j]].Namespace,
                          Itoa(rules[at[j]].RuleIndex), rules[at[j]].UID>>

\* C26: objectTransform gives one Response per Endpoint, in the same order and
\* with the same Namespace and Name; the Out rules are EgressRules and the In
\* rules IngressRules, each in the order of Rules, so that the two lengths add
\* up to len(Rules); len(Policies) is preserved.
C26_OneResponsePerEndpoint ==
    (transformed.done /\ ~Unimplemented(transformInput.Endpoints)) =>
        /\ ~transformed.panic
        /\ Len(transformed.responses) = Len(transformInput.Endpoints)
        /\ \A e \in 1..Len(transformInput.Endpoints) :
            LET endpoint == transformInput.Endpoints[e]
                shown    == transformed.responses[e]
            IN  /\ shown.Namespace = endpoint.Namespace
                /\ shown.Name = endpoint.Name
                /\ Len(shown.Policies) = Len(endpoint.Policies)
                /\ Len(shown.EgressRules) + Len(shown.IngressRules) = Len(endpoint.Rules)
                /\ Shows(shown.EgressRules, endpoint.Rules, DirectionOut)
                /\ Shows(shown.IngressRules, endpoint.Rules, DirectionIn)

\* C26 witness: an endpoint with two policies and the rules Out 12, In 0,
\* Out 0 has been transformed: EgressRules lists "12" before "0".
C26_Witness ==
    /\ transformed.done
    /\ ~transformed.panic
    /\ Len(transformInput.Endpoints) = 1
    /\ Len(transformInput.Endpoints[1].Policies) = 2
    /\ Len(transformInput.Endpoints[1].Rules) = 3
    /\ transformInput.Endpoints[1].Rules[2].Direction = DirectionIn
    /\ Len(transformed.responses) = 1
    /\ Len(transformed.responses[1].Policies) = 2
    /\ Len(transformed.responses[1].EgressRules) = 2
    /\ transformed.responses[1].EgressRules[1][3] = "12"
    /\ transformed.responses[1].EgressRules[2][3] = "0"
    /\ Len(transformed.responses[1].IngressRules) = 1

\* the Rules of the last response of QueryNetworkPolicies
ReturnedRules == Concat([e \in 1..Len(Endpoints) |-> Endpoints[e].Rules])

\* C27: every Rules entry QueryNetworkPolicies returns has Direction
\* DirectionIn or DirectionOut, and objectTransform applied to the response
\* the client received does not panic.
C27_DirectionsImplemented ==
    /\ (Returned /\ err = NoError) =>
          \A k \in 1..Len(ReturnedRules) :
              ReturnedRules[k].Direction \in {DirectionIn, DirectionOut}
    /\ (Returned /\ transformed.done) => ~transformed.panic

\* C27 witness: a response with an Egress and an Ingress entry has been
\* transformed into a Response that lists both.
C27_Witness ==
    /\ Returned
    /\ transformed.done
    /\ ~transformed.panic
    /\ \E j, k \in 1..Len(ReturnedRules) :
          ReturnedRules[j].Direction = DirectionOut /\ ReturnedRules[k].Direction = DirectionIn
    /\ Len(transformed.responses) = 1
    /\ transformed.responses[1].EgressRules # <<>>
    /\ transformed.responses[1].IngressRules # <<>>

-----------------------------------------------------------------------------
\* C28: in Rules all Egress entries precede all Ingress entries, whatever the
\* order of the AddressGroups, the policies and the rules.
C28_EgressBeforeIngress ==
    Completed =>
        \A j, k \in 1..Len(Rules) :
            (Rules[j].Direction = DirectionIn /\ Rules[k].Direction = DirectionOut) => k < j

\* C28 witness: the first rule of a policy matched as Ingress and its second
\* rule as Egress: the entry of the second rule comes first.
C28_Witness ==
    /\ Completed
    /\ \E j, k \in 1..Len(Rules) :
        /\ j < k
        /\ Rules[j].UID = Rules[k].UID
        /\ Rules[j].Direction = DirectionOut
        /\ Rules[j].RuleIndex = 1
        /\ Rules[k].Direction = DirectionIn
        /\ Rules[k].RuleIndex = 0

-----------------------------------------------------------------------------
\* the two lists hold the same entries, each as many times
SameEntries(a, b) ==
    /\ Len(a) = Len(b)
    /\ \A x \in Range(a) \cup Range(b) :
          Cardinality({k \in 1..Len(a) : a[k] = x}) = Cardinality({k \in 1..Len(b) : b[k] = x})

\* the store contents s and t agree in what the first half of a query reads:
\* the AppliedToGroups and the policies' references to them
SameAppliedSide(s, t) ==
    /\ s.atg = t.atg
    /\ \A p \in PolicyUIDs : s.np[p].AppliedToGroups = t.np[p].AppliedToGroups

\* the store contents s and t agree in what the second half of a query reads:
\* the AddressGroups and the rules of the policies
SameRuleSide(s, t) ==
    /\ s.ag = t.ag
    /\ \A p \in PolicyUIDs : s.np[p].Rules = t.np[p].Rules

\* both queries ran to their end
BothRanToEnd ==
    /\ RanToEnd("c1")
    /\ RanToEnd("c2")
    /\ callers["c1"].lerr = NoError
    /\ callers["c2"].lerr = NoError

\* the one Endpoint the call of c returned
EndpointOf(c) == callers[c].response.Endpoints[1]

\* C29: two queries for one workload against store contents that differ only
\* in the AddressGroups or the peers of the rules return the same Policies
\* list; against store contents that differ only in the AppliedToGroups or
\* the policies' references to them they return the same Rules list.
C29_HalvesIndependent ==
    BothRanToEnd =>
        \A s \in snapshots["c1"], t \in snapshots["c2"] :
            /\ SameAppliedSide(s, t) => EndpointOf("c1").Policies = EndpointOf("c2").Policies
            /\ SameRuleSide(s, t) => EndpointOf("c1").Rules = EndpointOf("c2").Rules

\* what holds of the two halves: the same entries, each as many times, in an
\* order that follows the iteration order of the stores
IndependentUpToOrder ==
    BothRanToEnd =>
        \A s \in snapshots["c1"], t \in snapshots["c2"] :
            /\ SameAppliedSide(s, t) =>
                  SameEntries(EndpointOf("c1").Policies, EndpointOf("c2").Policies)
            /\ SameRuleSide(s, t) =>
                  SameEntries(EndpointOf("c1").Rules, EndpointOf("c2").Rules)

====
